---------------------------- MODULE Spec2Model ----------------------------
(***************************************************************************)
(* Model of the contact extractor (starter.py): the directory walk of      *)
(* ContactExtractor.run, the per-file dispatcher process_file, the         *)
(* contact-parsing heuristic parse_contact_info and the deduplication of   *)
(* save_data.                                                              *)
(*                                                                         *)
(* A text is a sequence of characters, each character a one-character      *)
(* string; "\n" is the newline.  Positions are 1-based.                    *)
(***************************************************************************)
EXTENDS Integers, Sequences, FiniteSets, TLC

VARIABLES
    dir,            \* the files os.walk yields, in traversal order
    word_app,       \* TRUE while a Word automation object is held
    pc,             \* position of run: "walk", "closed", "done"
    idx,            \* index in dir of the next file of the traversal
    data_list,      \* self.data_list: the collected records
    failed_count,   \* self.failed_count
    df,             \* the rows of the DataFrame after drop_duplicates
    removed_count,  \* initial_count - len(df)
    exported        \* "no", "ok" or "error": the outcome of the export

vars == <<dir, word_app, pc, idx, data_list, failed_count, df,
          removed_count, exported>>

----------------------------------------------------------------------------
(* Character classes of the two patterns and of str.strip.                 *)

Digit == {"0", "1", "2", "3", "4", "5", "6", "7", "8", "9"}

NonZeroDigit == Digit \ {"0"}

Letter ==
    {"a", "b", "c", "d", "e", "f", "g", "h", "i", "j", "k", "l", "m",
     "n", "o", "p", "q", "r", "s", "t", "u", "v", "w", "x", "y", "z",
     "A", "B", "C", "D", "E", "F", "G", "H", "I", "J", "K", "L", "M",
     "N", "O", "P", "Q", "R", "S", "T", "U", "V", "W", "X", "Y", "Z"}

\* \s, and the characters str.strip() removes
Whitespace == {" ", "\n", "\t"}

\* the separators with the hyphen left out of the class
PhoneSepNoHyphen == Whitespace \cup {"."}

\* [\s.-]
PhoneSep == Whitespace \cup {".", "-"}

\* [a-zA-Z0-9._%+-]
EmailLocal == Letter \cup Digit \cup {".", "_", "%", "+", "-"}

\* [a-zA-Z0-9.-]
EmailDomain == Letter \cup Digit \cup {".", "-"}

----------------------------------------------------------------------------
(* String primitives.                                                      *)

SetMin(S) == CHOOSE x \in S : \A y \in S : x <= y

SetMax(S) == CHOOSE x \in S : \A y \in S : x >= y

\* t[p], or the non-character "" past either end of the text
CharAt(t, p) == IF p >= 1 /\ p <= Len(t) THEN t[p] ELSE ""

\* str.strip(): drop leading and trailing whitespace
strip(s) ==
    LET keep == {i \in 1..Len(s) : s[i] \notin Whitespace}
    IN  IF keep = {} THEN <<>> ELSE SubSeq(s, SetMin(keep), SetMax(keep))

\* str.split('\n'): the pieces between newlines, empty pieces included
RECURSIVE split(_)
split(s) ==
    LET nl == {i \in 1..Len(s) : s[i] = "\n"}
    IN  IF nl = {} THEN <<s>>
        ELSE LET i == SetMin(nl)
             IN  <<SubSeq(s, 1, i - 1)>> \o split(SubSeq(s, i + 1, Len(s)))

\* TRUE iff old occurs in s at position i
OccursAt(s, old, i) ==
    /\ i + Len(old) - 1 <= Len(s)
    /\ \A k \in 1..Len(old) : s[i + k - 1] = old[k]

\* m is a substring of s (Python's "m in s")
IsSubstring(m, s) == \E i \in 1..(Len(s) - Len(m) + 1) : OccursAt(s, m, i)

\* str.replace(old, new): every non-overlapping occurrence of old, found
\* left to right, is replaced by new
RECURSIVE replace(_, _, _)
replace(s, old, new) ==
    IF old = <<>> THEN s
    ELSE LET occ == {i \in 1..(Len(s) - Len(old) + 1) : OccursAt(s, old, i)}
         IN  IF occ = {} THEN s
             ELSE LET i == SetMin(occ)
                  IN  SubSeq(s, 1, i - 1) \o new
                        \o replace(SubSeq(s, i + Len(old), Len(s)), old, new)

\* " ".join(parts)
RECURSIVE join(_)
join(parts) ==
    IF parts = <<>> THEN <<>>
    ELSE IF Len(parts) = 1 THEN parts[1]
    ELSE parts[1] \o <<" ">> \o join(Tail(parts))

----------------------------------------------------------------------------
(* The two regular expressions, matched as re does: leftmost, greedy,      *)
(* backtracking.  A match operator returns the position just after the     *)
(* match that starts at p, or 0 when no match starts at p.                 *)

\* the first position q >= p whose character is not in class C
RECURSIVE SkipClass(_, _, _)
SkipClass(t, p, C) ==
    IF p <= Len(t) /\ t[p] \in C THEN SkipClass(t, p + 1, C) ELSE p

\* (?:[\s.-]*\d{2}){n} from position p
RECURSIVE PhoneGroups(_, _, _)
PhoneGroups(t, p, n) ==
    IF n = 0 THEN p
    ELSE LET q == SkipClass(t, p, PhoneSep)
         IN  IF CharAt(t, q) \in Digit /\ CharAt(t, q + 1) \in Digit
             THEN PhoneGroups(t, q + 2, n - 1)
             ELSE 0

\* \s*[1-9](?:[\s.-]*\d{2}){4} from position p
PhoneRest(t, p) ==
    LET q == SkipClass(t, p, Whitespace)
    IN  IF CharAt(t, q) \in NonZeroDigit THEN PhoneGroups(t, q + 1, 4) ELSE 0

\* (?:(?:\+|00)33|0)\s*[1-9](?:[\s.-]*\d{2}){4} at position p: the
\* international prefix is tried first, the national 0 on its failure
phone_pattern(t, p) ==
    LET intl == IF OccursAt(t, <<"+", "3", "3">>, p) THEN PhoneRest(t, p + 3)
                ELSE IF OccursAt(t, <<"0", "0", "3", "3">>, p)
                     THEN PhoneRest(t, p + 4)
                     ELSE 0
    IN  IF intl # 0 THEN intl
        ELSE IF CharAt(t, p) = "0" THEN PhoneRest(t, p + 1) ELSE 0

\* [a-zA-Z0-9._%+-]+@[a-zA-Z0-9.-]+\.[a-zA-Z]{2,} at position p: the
\* local part runs up to the "@"; the domain is taken greedily and given
\* back one character at a time until a dot followed by two letters or
\* more is found
email_pattern(t, p) ==
    LET at == SkipClass(t, p, EmailLocal)
        dEnd == SkipClass(t, at + 1, EmailDomain)
        dots == {k \in (at + 2)..(dEnd - 1) :
                    /\ t[k] = "."
                    /\ CharAt(t, k + 1) \in Letter
                    /\ CharAt(t, k + 2) \in Letter}
    IN  IF at > p /\ CharAt(t, at) = "@" /\ dots # {}
        THEN SkipClass(t, SetMax(dots) + 1, Letter)
        ELSE 0

MatchEnd(pat, t, p) ==
    IF pat = "phone" THEN phone_pattern(t, p) ELSE email_pattern(t, p)

\* the spans [s, e) of the non-overlapping matches of pat in t, scanning
\* left to right from position p (re's scan: after a match the search
\* resumes at its end, otherwise one character further)
RECURSIVE finditer(_, _, _)
finditer(pat, t, p) ==
    IF p > Len(t) THEN <<>>
    ELSE LET e == MatchEnd(pat, t, p)
         IN  IF e # 0 THEN <<[s |-> p, e |-> e]>> \o finditer(pat, t, e)
             ELSE finditer(pat, t, p + 1)

\* the matched texts, last match first
findallReversed(pat, t) ==
    LET spans == finditer(pat, t, 1)
        n == Len(spans)
    IN  [i \in 1..n |-> SubSeq(t, spans[n + 1 - i].s, spans[n + 1 - i].e - 1)]

\* pattern.findall(t): the matched texts, in scan order
findall(pat, t) ==
    LET spans == finditer(pat, t, 1)
    IN  [i \in 1..Len(spans) |-> SubSeq(t, spans[i].s, spans[i].e - 1)]

----------------------------------------------------------------------------
(* parse_contact_info.  A record (the dict info) is a function from keys   *)
(* to texts; the key phone_3 is Key("phone", 3).                           *)

Key(k, i) == [k |-> k, i |-> i]

NameKey == Key("name", 0)

AddressKey == Key("address", 0)

RawKey == Key("raw_extraction", 0)

SourceKey == Key("source_file", 0)

Unknown == <<"U", "n", "k", "n", "o", "w", "n">>

\* lines = [line.strip() for line in raw_text.split('\n') if line.strip()]
RECURSIVE StripNonEmpty(_)
StripNonEmpty(pieces) ==
    IF pieces = <<>> THEN <<>>
    ELSE LET l == strip(Head(pieces))
         IN  (IF l # <<>> THEN <<l>> ELSE <<>>) \o StripNonEmpty(Tail(pieces))

Lines(raw_text) == StripNonEmpty(split(raw_text))

\* for i, m in enumerate(matches, 1): info[f'{kind}_{i}'] = m
Enumerate(kind, matches) ==
    [k \in {Key(kind, i) : i \in 1..Len(matches)} |-> matches[k.i]]

\* for m in matches: clean_line = clean_line.replace(m, "")
RECURSIVE RemoveAll(_, _)
RemoveAll(clean_line, matches) ==
    IF matches = <<>> THEN clean_line
    ELSE RemoveAll(replace(clean_line, Head(matches), <<>>), Tail(matches))

\* the body of the loop over lines, up to the second strip
CleanLine(line, phones, emails) ==
    strip(RemoveAll(RemoveAll(line, phones), emails))

\* every cleaned line kept, the empty ones too
KeepLineAny(clean_line) == TRUE

\* if len(clean_line) > 1
KeepLine(clean_line) == Len(clean_line) > 1

RECURSIVE RemainingLines(_, _, _)
RemainingLines(lines, phones, emails) ==
    IF lines = <<>> THEN <<>>
    ELSE LET clean_line == CleanLine(Head(lines), phones, emails)
         IN  (IF KeepLine(clean_line) THEN <<clean_line>> ELSE <<>>)
                \o RemainingLines(Tail(lines), phones, emails)

\* step 4's outcome: the name and, in two of the three cases, the address
NameAndAddress(remaining_lines) ==
    IF remaining_lines # <<>>
    THEN IF Len(remaining_lines) > 1
         THEN (NameKey :> remaining_lines[1])
                 @@ (AddressKey :> join(Tail(remaining_lines)))
         ELSE (NameKey :> remaining_lines[1])
    ELSE (NameKey :> Unknown) @@ (AddressKey :> <<>>)

parse_contact_info(raw_text) ==
    LET lines == Lines(raw_text)
        emails == findall("email", raw_text)
        phones == findall("phone", raw_text)
        remaining_lines == RemainingLines(lines, phones, emails)
    IN  Enumerate("email", emails)
          @@ Enumerate("phone", phones)
          @@ NameAndAddress(remaining_lines)
          @@ (RawKey :> replace(raw_text, <<"\n">>, <<" ", "|", " ">>))

----------------------------------------------------------------------------
(* The documents.  A file is what the walk and the readers see of it:      *)
(* whether its name starts with "~$", its extension, whether reading it    *)
(* fails, and the texts of the cells of its first six tables.  The path of *)
(* the i-th file of the traversal is i.                                    *)

File(temp, ext, fails, cells) ==
    [temp |-> temp, ext |-> ext, fails |-> fails, cells |-> cells]

SupportedExt == {".pdf", ".docx", ".odt", ".doc"}

\* extract_from_pdf, extract_from_docx, extract_from_odt: the stripped
\* texts of the cells that are not blank
ExtractCells(cells) == StripNonEmpty(cells)

\* what the reader called for f's extension does: "raise", "none" (the
\* .doc converter is missing or fails: None is returned) or "list"
ExtractOutcome(f) ==
    IF f.fails THEN (IF f.ext = ".doc" THEN "none" ELSE "raise") ELSE "list"

\* the threshold one character lower
TooShortBelow4(text_blob) == Len(text_blob) < 4

\* if len(text_blob) < 5: continue
TooShort(text_blob) == Len(text_blob) < 5

\* the loop of process_file over raw_texts_list: the records appended
RECURSIVE ParsedRecords(_, _)
ParsedRecords(raw_texts_list, file_path) ==
    IF raw_texts_list = <<>> THEN <<>>
    ELSE LET text_blob == Head(raw_texts_list)
             parsed_info == parse_contact_info(text_blob)
                               @@ (SourceKey :> <<file_path>>)
         IN  (IF TooShort(text_blob) THEN <<>> ELSE <<parsed_info>>)
                \o ParsedRecords(Tail(raw_texts_list), file_path)

\* the failure not counted
CountFailureForgotten(count) == count

\* self.failed_count += 1
CountFailure(count) == count + 1

\* process_file: the values of data_list and failed_count it leaves
process_file(f, file_path, records, count) ==
    IF f.ext \notin SupportedExt
    THEN [data_list |-> records, failed_count |-> count]
    ELSE IF ExtractOutcome(f) # "list"
    THEN [data_list |-> records, failed_count |-> CountFailure(count)]
    ELSE LET raw_texts_list == ExtractCells(f.cells)
         IN  IF raw_texts_list # <<>>
             THEN [data_list |-> records
                                   \o ParsedRecords(raw_texts_list, file_path),
                   failed_count |-> count]
             ELSE [data_list |-> records,
                   failed_count |-> CountFailure(count)]

----------------------------------------------------------------------------
(* save_data: the deduplication.                                           *)

\* the value pandas gives a cell whose record has no such key
NaN == <<"NaN">>

\* df.columns: every key of every record
Columns(rows) == UNION {DOMAIN rows[i] : i \in 1..Len(rows)}

\* source_file left among the columns compared
ColsWithSource(rows) == Columns(rows) \ {RawKey}

\* [c for c in df.columns if c not in ['source_file', 'raw_extraction']]
cols_to_check(rows) == Columns(rows) \ {SourceKey, RawKey}

\* a row of the DataFrame restricted to the columns cols
RowKey(r, cols) == [c \in cols |-> IF c \in DOMAIN r THEN r[c] ELSE NaN]

\* the scan stopped at the first duplicate dropped
RECURSIVE DropFromOnce(_, _, _)
DropFromOnce(rows, cols, seen) ==
    IF rows = <<>> THEN <<>>
    ELSE LET k == RowKey(Head(rows), cols)
         IN  IF k \in seen THEN Tail(rows)
             ELSE <<Head(rows)>>
                    \o DropFromOnce(Tail(rows), cols, seen \cup {k})

\* df.drop_duplicates(subset=cols, keep='first'): a row is kept unless an
\* earlier row agrees with it on every column of cols (seen: the keys of
\* the rows already passed)
RECURSIVE DropFrom(_, _, _)
DropFrom(rows, cols, seen) ==
    IF rows = <<>> THEN <<>>
    ELSE LET k == RowKey(Head(rows), cols)
         IN  IF k \in seen THEN DropFrom(Tail(rows), cols, seen)
             ELSE <<Head(rows)>> \o DropFrom(Tail(rows), cols, seen \cup {k})

drop_duplicates(rows, cols) == DropFrom(rows, cols, {})

----------------------------------------------------------------------------
(* The run.                                                                *)

RunSkip ==
    /\ pc = "walk"
    /\ idx <= Len(dir)
    /\ dir[idx].temp
    /\ idx' = idx + 1
    /\ UNCHANGED <<dir, word_app, pc, data_list, failed_count, df,
                   removed_count, exported>>

RunProcess ==
    /\ pc = "walk"
    /\ idx <= Len(dir)
    /\ ~dir[idx].temp
    /\ LET after == process_file(dir[idx], idx, data_list, failed_count)
       IN  /\ data_list' = after.data_list
           /\ failed_count' = after.failed_count
    /\ idx' = idx + 1
    /\ UNCHANGED <<dir, word_app, pc, df, removed_count, exported>>

close_word ==
    /\ pc = "walk"
    /\ idx > Len(dir)
    /\ word_app' = FALSE
    /\ pc' = "closed"
    /\ UNCHANGED <<dir, idx, data_list, failed_count, df, removed_count,
                   exported>>

NoData ==
    /\ pc = "closed"
    /\ data_list = <<>>
    /\ pc' = "done"
    /\ UNCHANGED <<dir, word_app, idx, data_list, failed_count, df,
                   removed_count, exported>>

save_data ==
    /\ pc = "closed"
    /\ data_list # <<>>
    /\ df' = drop_duplicates(data_list, cols_to_check(data_list))
    /\ removed_count' = Len(data_list) - Len(df')
    /\ exported' \in {"ok", "error"}
    /\ pc' = "done"
    /\ UNCHANGED <<dir, word_app, idx, data_list, failed_count>>

Next == RunSkip \/ RunProcess \/ close_word \/ NoData \/ save_data

\* __init__, with the directory d to walk
InitWith(d) ==
    /\ dir = d
    /\ word_app \in BOOLEAN
    /\ pc = "walk"
    /\ idx = 1
    /\ data_list = <<>>
    /\ failed_count = 0
    /\ df = <<>>
    /\ removed_count = 0
    /\ exported = "no"

----------------------------------------------------------------------------
(* Directories.                                                            *)

MaxFiles == 3

MaxRecords == 3

MaxTokens == 3

\* the sequences of 1 to n elements of S
SeqsUpTo(S, n) == UNION {[1..k -> S] : k \in 1..n}

RECURSIVE Concat(_)
Concat(parts) ==
    IF parts = <<>> THEN <<>> ELSE Head(parts) \o Concat(Tail(parts))

TokAl == <<"A", "l">>

TokPhoneHead == <<"0", "6", " ", "1", "2">>

TokPhoneTail == <<"3", "4", " ", "5", "6", " ", "7", "8">>

TokPhone == <<"0", "6", "1", "2", "3", "4", "5", "6", "7", "8">>

TokEmail == <<"a", "@", "b", ".", "c", "c">>

Tokens ==
    {TokAl, <<"\n">>, <<" ">>, <<":">>, TokPhoneHead, TokPhoneTail, TokPhone,
     TokEmail}

CellJean ==
    <<"J", "e", "a", "n", " ", "D", "u", "p", "o", "n", "t", "\n",
      "1", "2", " ", "R", "u", "e", " ", "d", "e", " ", "P", "a", "r", "i",
      "s", "\n", "0", "6", " ", "1", "2", " ", "3", "4", " ", "5", "6", " ",
      "7", "8", "\n", "j", "e", "a", "n", ".", "d", "u", "p", "o", "n", "t",
      "@", "e", "m", "a", "i", "l", ".", "f", "r">>

CellTel ==
    <<"T", "e", "l", ":", " ", "0", "0", "3", "3", " ", "6", " ", "1", "2",
      ".", "3", "4", "-", "5", "6", ".", "7", "8", " ", "(", "m", "o", "b",
      "i", "l", "e", ")">>

CellFirm ==
    <<"c", "o", "n", "t", "a", "c", "t", "@", "f", "i", "r", "m", ".", "c",
      "o", "m">>

CellNested ==
    <<"a", "@", "b", ".", "c", "c", "\n", "a", "@", "a", "@", "b", ".", "c",
      "c", "b", ".", "c", "c">>

CellTwoEmails ==
    <<"a", "@", "b", ".", "c", "c", " ", "c", "@", "d", ".", "e", "e">>

CellAl == <<"A", "l", "\n", "0", "6", "1", "2", "3", "4", "5", "6", "7", "8">>

CellAlSpaced ==
    <<"A", "l", "\n", "\n", "0", "6", "1", "2", "3", "4", "5", "6", "7", "8">>

CellAlTwo ==
    <<"A", "l", "\n", "0", "6", "1", "2", "3", "4", "5", "6", "7", "8", " ",
      "0", "7", "1", "2", "3", "4", "5", "6", "7", "8">>

CellNoise == <<"a", "\n", "b", "\n", "c">>

CellUnknown == <<"U", "n", "k", "n", "o", "w", "n">>

CellShort == <<"A", "l">>

CellIntl ==
    <<"+", "3", "3", " ", "6", " ", "1", "2", ".", "3", "4", "-", "5", "6",
      " ", "7", "8">>

CellMixed ==
    <<"A", "l", "\n", "0", "6", " ", "1", "2", ".", "3", "4", "-", "5", "6",
      " ", "7", "8", " ", "b", "i", "s">>

ExampleCells ==
    {CellJean, CellTel, CellFirm, CellNested, CellTwoEmails, CellIntl,
     CellMixed, <<" ", " ">>, <<>>}

\* the cells of the parser's specification: the examples and every
\* concatenation of at most MaxTokens tokens
ParseCells ==
    ExampleCells \cup {Concat(ts) : ts \in SeqsUpTo(Tokens, MaxTokens)}

DedupeCells ==
    {CellAl, CellAlSpaced, CellAlTwo, CellNoise, CellUnknown, CellShort}

\* the files that yield no record: a lock file, a file of another type, an
\* unreadable PDF, a .doc that cannot be converted, a document whose tables
\* hold blank cells only
BarrenFiles ==
    {File(TRUE, ".docx", FALSE, <<CellAl>>),
     File(FALSE, ".txt", FALSE, <<>>),
     File(FALSE, ".pdf", TRUE, <<>>),
     File(FALSE, ".doc", TRUE, <<>>),
     File(FALSE, ".odt", FALSE, <<<<" ">>>>)}

BarrenDirs == {<<>>} \cup {<<f>> : f \in BarrenFiles}

ParseDirs ==
    BarrenDirs \cup {<<File(FALSE, ".pdf", FALSE, <<c>>)>> : c \in ParseCells}

RunFiles ==
    BarrenFiles
      \cup {File(FALSE, ".docx", FALSE, <<CellAl>>),
            File(FALSE, ".doc", FALSE, <<CellShort, CellFirm>>)}

RunDirs == {<<>>} \cup SeqsUpTo(RunFiles, MaxFiles)

\* one or two documents holding MaxRecords cells at most between them
DedupeDirs ==
    BarrenDirs
      \cup {<<File(FALSE, ".docx", FALSE, cs)>> :
                cs \in SeqsUpTo(DedupeCells, MaxRecords)}
      \cup {<<File(FALSE, ".pdf", FALSE, SubSeq(cs, 1, k)),
              File(FALSE, ".docx", FALSE, SubSeq(cs, k + 1, Len(cs)))>> :
                <<cs, k>> \in {x \in SeqsUpTo(DedupeCells, MaxRecords)
                                        \X (1..MaxRecords) : x[2] < Len(x[1])}}

Init == \E d \in RunDirs : InitWith(d)

InitParse == \E d \in ParseDirs : InitWith(d)

InitDedupe == \E d \in DedupeDirs : InitWith(d)

Spec == Init /\ [][Next]_vars

SpecParse == InitParse /\ [][Next]_vars

SpecDedupe == InitDedupe /\ [][Next]_vars

----------------------------------------------------------------------------
(* Vocabulary of the properties.                                           *)

\* the traversal has handled file i
Handled(i) == i < idx

\* the records of data_list that come from file i
RecordsOf(i) == {n \in DOMAIN data_list : data_list[n][SourceKey] = <<i>>}

\* the directory holds one readable document with one cell, that cell has
\* been parsed and its record collected
ParsedOne ==
    /\ Len(dir) = 1
    /\ ~dir[1].temp /\ dir[1].ext \in SupportedExt /\ ~dir[1].fails
    /\ Len(dir[1].cells) = 1
    /\ Handled(1)
    /\ Len(data_list) = 1

\* the text of that cell as the reader hands it over, and its record
ParsedText == strip(dir[1].cells[1])

ParsedRecord == data_list[1]

\* the residual lines of a text, as section 4.2 defines them: each
\* non-blank line with every matched phone and email removed, trimmed, and
\* kept if more than one character is left
ResidualLines(t) ==
    LET lines == Lines(t)
        residual == [i \in DOMAIN lines |->
                        CleanLine(lines[i], findall("phone", t),
                                  findall("email", t))]
        kept == {i \in DOMAIN lines : Len(residual[i]) > 1}
    IN  [n \in 1..Cardinality(kept) |->
            residual[CHOOSE i \in kept :
                        Cardinality({j \in kept : j <= i}) = n]]

\* the phone and email entries of a record
MatchKeys(r) == {k \in DOMAIN r : k.k \in {"phone", "email"}}

----------------------------------------------------------------------------
(* C1: a cell whose trimmed text has fewer than 5 characters produces no   *)
(* record: the records collected from a handled file are no more than its  *)
(* cells of 5 trimmed characters or more.                                  *)
C1_ShortCellAbsent ==
    \A i \in DOMAIN dir :
        Handled(i) =>
            Cardinality(RecordsOf(i))
                <= Cardinality({k \in DOMAIN dir[i].cells :
                                    Len(strip(dir[i].cells[k])) >= 5})

\* a readable document whose single cell is not blank and is under 5
\* trimmed characters has been handled
C1_Witness ==
    /\ Len(dir) = 1 /\ Handled(1)
    /\ ~dir[1].temp /\ dir[1].ext \in SupportedExt /\ ~dir[1].fails
    /\ Len(dir[1].cells) = 1
    /\ Len(strip(dir[1].cells[1])) \in 1..4
    /\ Len(dir[1].cells[1]) >= 5
    /\ data_list = <<>>

----------------------------------------------------------------------------
(* C2: no phone or email entry of a record is a substring of the record's  *)
(* name or of its address.                                                 *)
C2_MatchesNeverReappear ==
    ParsedOne =>
        \A k \in MatchKeys(ParsedRecord) :
            /\ ~IsSubstring(ParsedRecord[k], ParsedRecord[NameKey])
            /\ AddressKey \in DOMAIN ParsedRecord
                  => ~IsSubstring(ParsedRecord[k], ParsedRecord[AddressKey])

----------------------------------------------------------------------------
(* C3: every record has an address, equal to the residual lines after the  *)
(* first joined by a single space, the empty text when there is exactly    *)
(* one residual line.                                                      *)
C3_AddressAlwaysPresent ==
    ParsedOne =>
        /\ AddressKey \in DOMAIN ParsedRecord
        /\ LET rl == ResidualLines(ParsedText)
           IN  ParsedRecord[AddressKey]
                  = IF Len(rl) > 1 THEN join(Tail(rl)) ELSE <<>>

----------------------------------------------------------------------------
(* C4: the name of every record is not empty: it is the first residual     *)
(* line, of more than one character, when there is a residual line, and    *)
(* otherwise it is "Unknown" and the address is the empty text.            *)
C4_NameNeverEmpty ==
    ParsedOne =>
        LET rl == ResidualLines(ParsedText)
            name == ParsedRecord[NameKey]
        IN  /\ NameKey \in DOMAIN ParsedRecord
            /\ Len(name) >= 1
            /\ rl # <<>> => name = rl[1] /\ Len(name) > 1 /\ strip(name) = name
            /\ rl = <<>> => /\ name = Unknown
                            /\ AddressKey \in DOMAIN ParsedRecord
                            /\ ParsedRecord[AddressKey] = <<>>

\* a record named from its residual text, and one named by the sentinel
\* because removing the matches left nothing
C4_Witness ==
    /\ ParsedOne
    /\ \/ /\ ResidualLines(ParsedText) # <<>>
          /\ MatchKeys(ParsedRecord) # {}
          /\ ParsedRecord[NameKey] # Unknown
       \/ /\ ResidualLines(ParsedText) = <<>>
          /\ MatchKeys(ParsedRecord) # {}
          /\ ParsedRecord[NameKey] = Unknown

----------------------------------------------------------------------------
(* Deduplication.                                                          *)

\* two records are equal on every field other than source and raw; a
\* field one of them lacks is equal to no field of the other
SameContact(a, b) ==
    \A k \in (DOMAIN a \cup DOMAIN b) \ {SourceKey, RawKey} :
        k \in DOMAIN a /\ k \in DOMAIN b /\ a[k] = b[k]

FirstOccurrences(rows) ==
    {i \in DOMAIN rows : \A j \in 1..(i - 1) : ~SameContact(rows[j], rows[i])}

(* C5: the deduplicated rows are exactly the records that no earlier       *)
(* record equals on every field other than source and raw (a missing       *)
(* field never equal to a present one), in the order of the input; the     *)
(* count removed is the difference of the lengths.                         *)
C5_DedupeKeepsFirst ==
    (pc = "done" /\ data_list # <<>>) =>
        LET kept == FirstOccurrences(data_list)
        IN  /\ df = [n \in 1..Cardinality(kept) |->
                        data_list[CHOOSE i \in kept :
                                     Cardinality({j \in kept : j <= i}) = n]]
            /\ removed_count = Len(data_list) - Cardinality(kept)

\* the same contact from two documents, with another contact between: the
\* later copy is dropped although its source differs, and a record with
\* one phone more is kept
C5_Witness ==
    /\ pc = "done"
    /\ Len(data_list) = 3
    /\ data_list[1][SourceKey] # data_list[3][SourceKey]
    /\ SameContact(data_list[1], data_list[3])
    /\ Key("phone", 2) \in DOMAIN data_list[2]
    /\ data_list[2][NameKey] = data_list[1][NameKey]
    /\ df = <<data_list[1], data_list[2]>>
    /\ removed_count = 1

----------------------------------------------------------------------------
(* C6: deduplication is idempotent: deduplicating the rows save_data kept  *)
(* returns the same rows and removes none.                                 *)
C6_DedupeIdempotent ==
    pc = "done" =>
        LET again == drop_duplicates(df, cols_to_check(df))
        IN  again = df /\ Len(df) - Len(again) = 0

\* a run whose deduplication removed two copies of one contact
C6_Witness ==
    /\ pc = "done"
    /\ Len(data_list) = 3
    /\ Len(df) = 1
    /\ removed_count = 2

----------------------------------------------------------------------------
(* Appearance order.                                                       *)

\* the entries of one kind of record r are the matches of the pattern in
\* text t, in the order of their positions
ScanOrdered(kind, t, r) ==
    LET spans == finditer(kind, t, 1)
    IN  /\ \A i \in DOMAIN spans :
              /\ spans[i].s \in 1..Len(t)
              /\ MatchEnd(kind, t, spans[i].s) = spans[i].e
              /\ spans[i].e > spans[i].s
        /\ \A i, j \in DOMAIN spans : i < j => spans[i].e <= spans[j].s
        /\ \A p \in 1..Len(t) :
              MatchEnd(kind, t, p) # 0 =>
                  \E i \in DOMAIN spans : spans[i].s <= p /\ p < spans[i].e
        /\ {k \in DOMAIN r : k.k = kind}
              = {Key(kind, i) : i \in DOMAIN spans}
        /\ \A i \in DOMAIN spans :
              r[Key(kind, i)] = SubSeq(t, spans[i].s, spans[i].e - 1)

(* C7: the i-th phone (email) entry of a record is the i-th match of the   *)
(* pattern in the left-to-right scan of the whole cell text: the matches   *)
(* do not overlap, each starts after the one before ends, no match is      *)
(* skipped, and the i-th is stored under phone_i (email_i).                *)
C7_AppearanceOrder ==
    ParsedOne =>
        /\ ScanOrdered("phone", ParsedText, ParsedRecord)
        /\ ScanOrdered("email", ParsedText, ParsedRecord)

\* a cell with two different phones, the first stored as phone_1
C7_Witness ==
    /\ ParsedOne
    /\ Key("phone", 2) \in DOMAIN ParsedRecord
    /\ ParsedRecord[Key("phone", 1)] # ParsedRecord[Key("phone", 2)]
    /\ OccursAt(ParsedText, ParsedRecord[Key("phone", 1)], 1)

----------------------------------------------------------------------------
(* The line "Tel: 0033 6 12.34-56.78 (mobile)".                            *)

TelResidual ==
    <<"T", "e", "l", ":", " ", " ", "(", "m", "o", "b", "i", "l", "e", ")">>

TelResidualOneSpace ==
    <<"T", "e", "l", ":", " ", "(", "m", "o", "b", "i", "l", "e", ")">>

ParsedTel == ParsedOne /\ ParsedText = CellTel

----------------------------------------------------------------------------
(* Failures.                                                               *)

\* reading f fails, or f yields no cell that is not blank
Barren(f) ==
    /\ ~f.temp
    /\ f.ext \in SupportedExt
    /\ f.fails \/ \A k \in DOMAIN f.cells : strip(f.cells[k]) = <<>>

(* C9: a document whose reading fails, or that yields no cell, does not    *)
(* abort the run: handling it adds one to failed_count, leaves data_list   *)
(* as it is and moves to the next file; the walk ends only when every file *)
(* was handled, and then Word is closed and, if there is a record, the     *)
(* data saved.                                                             *)
C9_FailureDoesNotAbort ==
    [][/\ (pc = "walk" /\ idx <= Len(dir) /\ Barren(dir[idx]))
            => /\ failed_count' = failed_count + 1
               /\ data_list' = data_list
               /\ idx' = idx + 1
               /\ pc' = "walk"
       /\ (pc = "walk" /\ pc' # "walk")
            => idx > Len(dir) /\ pc' = "closed" /\ ~word_app'
       /\ pc = "closed"
            => /\ pc' = "done"
               /\ data_list # <<>> => exported' # "no" /\ df' # <<>>]_vars

\* a run that met a failing document first and still collected and saved
\* the records of a later one
C9_Witness ==
    /\ pc = "done"
    /\ Len(dir) >= 2
    /\ Barren(dir[1])
    /\ failed_count >= 1
    /\ \E n \in DOMAIN df : df[n][SourceKey] = <<Len(dir)>>
    /\ exported = "ok"

----------------------------------------------------------------------------
(* C10: when a phone match spans a newline of the cell, no line fragment   *)
(* of that phone is left in the name or the address.                       *)
C10_WrappedPhoneRemoved ==
    ParsedOne =>
        \A k \in {m \in MatchKeys(ParsedRecord) : m.k = "phone"} :
            LET fragments == Lines(ParsedRecord[k])
            IN  Len(fragments) > 1 =>
                    \A n \in DOMAIN fragments :
                        /\ ~IsSubstring(fragments[n], ParsedRecord[NameKey])
                        /\ AddressKey \in DOMAIN ParsedRecord
                              => ~IsSubstring(fragments[n],
                                              ParsedRecord[AddressKey])

============================================================================
